---- MODULE Spec2Model ----
(***************************************************************************)
(* The K-Means clusterer of src/components/Dashboard.tsx as a state        *)
(* machine.  The state is the React state of KMeansClusterer; there is one *)
(* action per user operation (a click on the plot, an edit of the cluster  *)
(* count, a click on one of the four buttons).  A click on a disabled      *)
(* button runs no handler.                                                 *)
(*                                                                         *)
(* Numbers.  Point coordinates are the integers the click handler rounds   *)
(* to.  Centroid coordinates are means of at most MaxPoints integers; they *)
(* are kept exactly, as integers in units of 1/Scale, Scale being a common *)
(* multiple of every possible cluster size.  Distances are compared by     *)
(* their squares (Math.sqrt is monotone).                                  *)
(***************************************************************************)
EXTENDS Integers, Sequences, FiniteSets, TLC

\* ---- bounds of the model
MaxPoints == 3      \* points the user adds
MaxK == 2           \* largest cluster count the user enters
MaxIter == 2        \* iterations performed before the user stops
MaxX == 1           \* clicks land on x in 0..MaxX (and one beyond the plot)
MaxY == 1           \* clicks land on y in 0..MaxY

\* ---- program constants
GridMax == 10           \* the accepted range of a click, 0..10 on both axes
InitialClusters == 2    \* useState<number>(2)
EpsilonInverse == 1000  \* 1 / 0.001, the convergence threshold
NoCluster == -1         \* cluster?: number, when undefined

\* The component's state, and three history variables: the operation the
\* user performed last, whether it ran its handler's body (FALSE: the button
\* was disabled or the handler returned early), and the state the last step
\* started from.
VARIABLES points, clusters, centroids, clusterColors, iterationHistory,
          currentIteration, isConverged,
          lastOp, lastOk, pre

state == <<points, clusters, centroids, clusterColors, iterationHistory,
           currentIteration, isConverged>>
vars == <<points, clusters, centroids, clusterColors, iterationHistory,
          currentIteration, isConverged, lastOp, lastOk, pre>>

\* ---- arithmetic helpers
RECURSIVE Gcd(_, _)
Gcd(a, b) == IF b = 0 THEN a ELSE Gcd(b, a % b)

RECURSIVE LcmUpTo(_)
LcmUpTo(n) == IF n <= 1 THEN 1 ELSE LET l == LcmUpTo(n - 1) IN (l * n) \div Gcd(l, n)

Abs(n) == IF n < 0 THEN 0 - n ELSE n

MathMax(a, b) == IF a >= b THEN a ELSE b

\* The points of Scenario A of the specification (section 8).
ScenarioPoints == << <<0, 0>>, <<0, 1>>, <<10, 10>>, <<10, 11>> >>

\* One unit of a coordinate is Scale units of a centroid coordinate.
Scale == LcmUpTo(MathMax(MaxPoints, Len(ScenarioPoints)))

\* ---- the pure functions of the component

\* calculateDistance, squared and in units of 1/Scale: p1 is a point
\* (integer coordinates), p2 a centroid (scaled coordinates).
calculateDistance(p1, p2) ==
    (p1.x * Scale - p2.x) * (p1.x * Scale - p2.x)
  + (p1.y * Scale - p2.y) * (p1.y * Scale - p2.y)

\* Math.min(...d) of a non-empty array.
RECURSIVE MathMin(_)
MathMin(d) ==
    IF Len(d) = 1 THEN d[1]
    ELSE LET m == MathMin(Tail(d)) IN IF d[1] <= m THEN d[1] ELSE m

\* d.lastIndexOf(v): the last position holding v.
lastIndexOf(d, v) ==
    (CHOOSE i \in 1..Len(d) : d[i] = v /\ \A j \in (i + 1)..Len(d) : d[j] # v) - 1

\* d.indexOf(v): the first position holding v, counted from 0.
indexOf(d, v) ==
    (CHOOSE i \in 1..Len(d) : d[i] = v /\ \A j \in 1..(i - 1) : d[j] # v) - 1

\* distances[i][j]: from point i to centroid j.
distances(pts, cs) ==
    [i \in 1..Len(pts) |-> [j \in 1..Len(cs) |-> calculateDistance(pts[i], cs[j])]]

\* labels[i]: the index (from 0) of the centroid nearest to point i.
labels(pts, cs) ==
    LET d == distances(pts, cs)
    IN  [i \in 1..Len(pts) |-> indexOf(d[i], MathMin(d[i]))]

RECURSIVE SumOver(_, _, _)
\* reduce((sum, p) => sum + p.<axis>, 0) over the points at the positions idx.
SumOver(pts, idx, axis) ==
    IF idx = {} THEN 0
    ELSE LET i == CHOOSE i \in idx : TRUE
         IN  (IF axis = "x" THEN pts[i].x ELSE pts[i].y) + SumOver(pts, idx \ {i}, axis)

\* A cluster without points is moved to the origin.
emptyClusterToOrigin(cs, clusterIndex) == [x |-> 0, y |-> 0]

\* The centroid of a cluster no point was assigned to.
emptyCluster(cs, clusterIndex) == cs[clusterIndex + 1]

\* The cluster sums are divided by the number of all points.
newCentroidsOverAllPoints(pts, cs) ==
    LET lab == labels(pts, cs)
    IN  [c \in 1..Len(cs) |->
           LET clusterPoints == {i \in 1..Len(pts) : lab[i] = c - 1}
           IN  IF clusterPoints = {} THEN emptyCluster(cs, c - 1)
               ELSE [x |-> (SumOver(pts, clusterPoints, "x") * Scale) \div Len(pts),
                     y |-> (SumOver(pts, clusterPoints, "y") * Scale) \div Len(pts)]]

\* newCentroids: the mean of each cluster's points.
newCentroids(pts, cs) ==
    LET lab == labels(pts, cs)
    IN  [c \in 1..Len(cs) |->
           LET clusterPoints == {i \in 1..Len(pts) : lab[i] = c - 1}
               n == Cardinality(clusterPoints)
           IN  IF n = 0 THEN emptyCluster(cs, c - 1)
               ELSE [x |-> (SumOver(pts, clusterPoints, "x") * Scale) \div n,
                     y |-> (SumOver(pts, clusterPoints, "y") * Scale) \div n]]

\* newPoints: every point marked with its label.
newPoints(pts, cs) ==
    LET lab == labels(pts, cs)
    IN  [i \in 1..Len(pts) |-> [pts[i] EXCEPT !.cluster = lab[i]]]

\* Only the x axis is compared.
hasConvergedXOnly(newCs, cs) ==
    \A i \in 1..Len(newCs) : Abs(newCs[i].x - cs[i].x) * EpsilonInverse < Scale

\* hasConverged: every centroid moved by less than 0.001 on both axes.
hasConverged(newCs, cs) ==
    \A i \in 1..Len(newCs) :
        /\ Abs(newCs[i].x - cs[i].x) * EpsilonInverse < Scale
        /\ Abs(newCs[i].y - cs[i].y) * EpsilonInverse < Scale

\* The permutations of 1..n: what a sort with a random comparator can produce.
Shuffles(n) == {f \in [1..n -> 1..n] : \A i, j \in 1..n : f[i] = f[j] => i = j}

\* The colours generateRandomColors draws from (each channel is 0..254).
Colors == {"rgb(0, 0, 0)"}

\* No step is being tracked.
NoPre == [points |-> <<>>, centroids |-> <<>>, iteration |-> 0 - 1, history |-> <<>>]

\* The record of a step's starting state, kept while the step is the last
\* operation (and through the revert that follows it); NoPre otherwise.
Snapshot == [points |-> points, centroids |-> centroids,
             iteration |-> currentIteration, history |-> iterationHistory]

\* ---- the handlers

\* The first k shuffled points are drawn again and again: sampling that can
\* repeat a point.
initialCentroidsRepeating(sorted, k) ==
    [i \in 1..(IF k < Len(sorted) THEN k ELSE Len(sorted)) |->
        [x |-> sorted[1].x * Scale, y |-> sorted[1].y * Scale]]

\* .slice(0, clusters - 1): one centroid short.
initialCentroidsShort(sorted, k) ==
    [i \in 1..(IF k - 1 < Len(sorted) THEN k - 1 ELSE Len(sorted)) |->
        [x |-> sorted[i].x * Scale, y |-> sorted[i].y * Scale]]

\* .slice(0, clusters).map(p => ({x: p.x, y: p.y})) for clusters >= 0.
initialCentroids(sorted, k) ==
    [i \in 1..(IF k < Len(sorted) THEN k ELSE Len(sorted)) |->
        [x |-> sorted[i].x * Scale, y |-> sorted[i].y * Scale]]

\* initializeCentroids.  points.sort(...) reorders the points array in place.
initializeCentroids ==
    \E f \in Shuffles(Len(points)) :
        LET sorted == [i \in 1..Len(points) |-> points[f[i]]]
        IN  /\ points' = sorted
            /\ centroids' = initialCentroids(sorted, clusters)
            /\ clusterColors' \in [1..clusters -> Colors]
            /\ currentIteration' = 0
            /\ isConverged' = FALSE
            /\ iterationHistory' = <<>>
            /\ UNCHANGED clusters

\* performKMeansIteration, past its early return.
performKMeansIteration ==
    LET newCs == newCentroids(points, centroids)
    IN  /\ iterationHistory' =
               Append(iterationHistory, [points |-> points, centroids |-> centroids])
        /\ centroids' = newCs
        /\ points' = newPoints(points, centroids)
        /\ currentIteration' = currentIteration + 1
        /\ isConverged' = (IF hasConverged(newCs, centroids) THEN TRUE ELSE isConverged)
        /\ UNCHANGED <<clusters, clusterColors>>

\* The counter is left as it is.
previousIterationStuck(prev) == prev

\* Math.max(0, prev - 1)
previousIteration(prev) == MathMax(0, prev - 1)

\* A revert that also clears the convergence flag.
revertClearingConverged ==
    LET lastState == iterationHistory[Len(iterationHistory)]
    IN  /\ centroids' = lastState.centroids
        /\ points' = lastState.points
        /\ iterationHistory' = SubSeq(iterationHistory, 1, Len(iterationHistory) - 1)
        /\ currentIteration' = previousIteration(currentIteration)
        /\ isConverged' = FALSE
        /\ UNCHANGED <<clusters, clusterColors>>

\* revertToPreviousIteration, inside its guard.
revertToPreviousIteration ==
    LET lastState == iterationHistory[Len(iterationHistory)]
    IN  /\ centroids' = lastState.centroids
        /\ points' = lastState.points
        /\ iterationHistory' = SubSeq(iterationHistory, 1, Len(iterationHistory) - 1)
        /\ currentIteration' = previousIteration(currentIteration)
        /\ UNCHANGED <<clusters, clusterColors, isConverged>>

\* resetClustering
resetClustering ==
    /\ points' = <<>>
    /\ centroids' = <<>>
    /\ clusterColors' = <<>>
    /\ iterationHistory' = <<>>
    /\ currentIteration' = 0
    /\ isConverged' = FALSE
    /\ UNCHANGED clusters

\* ---- the buttons' disabled attributes

InitializeDisabled == Len(points) < clusters

\* The button stays enabled after convergence.
NextIterationDisabledNoConverged == Len(centroids) = 0

\* The flag is tested the wrong way round.
NextIterationDisabledInverted == ~isConverged \/ Len(centroids) = 0

NextIterationDisabled == isConverged \/ Len(centroids) = 0

PreviousIterationDisabled == Len(iterationHistory) = 0

\* ---- the operations of the user

\* The new point is named after the iteration count.
pointNameByIteration(prev) == "p" \o ToString(currentIteration + 1)

\* `p${prev.length + 1}`
pointName(prev) == "p" \o ToString(Len(prev) + 1)

\* A click on the plot at the rounded coordinates (x, y).
handleMouseDown(x, y) ==
    /\ Len(points) < MaxPoints
    /\ lastOp' = "addPoint"
    /\ pre' = NoPre
    /\ IF x >= 0 /\ x <= GridMax /\ y >= 0 /\ y <= GridMax
       THEN /\ points' = Append(points, [x |-> x, y |-> y,
                                          name |-> pointName(points),
                                          cluster |-> NoCluster])
            /\ lastOk' = TRUE
            /\ UNCHANGED <<clusters, centroids, clusterColors, iterationHistory,
                           currentIteration, isConverged>>
       ELSE /\ lastOk' = FALSE
            /\ UNCHANGED state

\* An edit of the "Number of Clusters" input: setClusters(Number(value)).
\* An emptied input delivers '' and Number('') is 0.
setClusters(value) ==
    /\ clusters' = value
    /\ lastOp' = "setClusters"
    /\ lastOk' = TRUE
    /\ pre' = NoPre
    /\ UNCHANGED <<points, centroids, clusterColors, iterationHistory,
                   currentIteration, isConverged>>

\* A click on Initialize.
InitializeClick ==
    /\ lastOp' = "initialize"
    /\ pre' = NoPre
    /\ IF InitializeDisabled
       THEN lastOk' = FALSE /\ UNCHANGED state
       ELSE lastOk' = TRUE /\ initializeCentroids

\* A click on Next Iteration.
NextIterationPress ==
    /\ lastOp' = "step"
    /\ IF NextIterationDisabled \/ Len(points) = 0 \/ Len(centroids) = 0
       THEN lastOk' = FALSE /\ pre' = NoPre /\ UNCHANGED state
       ELSE lastOk' = TRUE /\ pre' = Snapshot /\ performKMeansIteration

\* A click on Next Iteration by a user who stops after MaxIter iterations.
NextIterationClick == currentIteration < MaxIter /\ NextIterationPress

\* A click on Previous Iteration that, without a history, falls back to the
\* state before seeding.
PreviousIterationClickResetting ==
    /\ lastOp' = "revert"
    /\ pre' = (IF lastOp = "step" /\ lastOk THEN pre ELSE NoPre)
    /\ IF Len(iterationHistory) = 0
       THEN /\ lastOk' = FALSE
            /\ centroids' = <<>>
            /\ currentIteration' = 0
            /\ UNCHANGED <<points, clusters, clusterColors, iterationHistory, isConverged>>
       ELSE lastOk' = TRUE /\ revertToPreviousIteration

\* A click on Previous Iteration.
PreviousIterationClick ==
    /\ lastOp' = "revert"
    /\ pre' = (IF lastOp = "step" /\ lastOk THEN pre ELSE NoPre)
    /\ IF PreviousIterationDisabled \/ ~(Len(iterationHistory) > 0)
       THEN lastOk' = FALSE /\ UNCHANGED state
       ELSE lastOk' = TRUE /\ revertToPreviousIteration

\* A click on Reset.
ResetClick ==
    /\ lastOp' = "reset"
    /\ lastOk' = TRUE
    /\ pre' = NoPre
    /\ resetClustering

\* Where the user clicks: the grid positions within the bounds, and one
\* position beyond the accepted range.
ClickXs == 0..MaxX \cup {GridMax + 1}
ClickYs == 0..MaxY

Init ==
    /\ points = <<>>
    /\ clusters = InitialClusters
    /\ centroids = <<>>
    /\ clusterColors = <<>>
    /\ iterationHistory = <<>>
    /\ currentIteration = 0
    /\ isConverged = FALSE
    /\ lastOp = "mount"
    /\ lastOk = TRUE
    /\ pre = NoPre

AddPoint == \E x \in ClickXs, y \in ClickYs : handleMouseDown(x, y)

EditClusters == \E value \in 0..MaxK : setClusters(value)

Next ==
    \/ AddPoint
    \/ EditClusters
    \/ InitializeClick
    \/ NextIterationClick
    \/ PreviousIterationClick
    \/ ResetClick

Spec == Init /\ [][Next]_vars

\* ---- Scenario A: the four scenario points, added in any order; the user
\* then initializes, steps and reverts.
InitA ==
    /\ \E f \in Shuffles(Len(ScenarioPoints)) :
          points = [i \in 1..Len(ScenarioPoints) |->
                      [x |-> ScenarioPoints[f[i]][1], y |-> ScenarioPoints[f[i]][2],
                       name |-> "p" \o ToString(i), cluster |-> NoCluster]]
    /\ clusters = InitialClusters
    /\ centroids = <<>>
    /\ clusterColors = <<>>
    /\ iterationHistory = <<>>
    /\ currentIteration = 0
    /\ isConverged = FALSE
    /\ lastOp = "addPoint"
    /\ lastOk = TRUE
    /\ pre = NoPre

NextA ==
    \/ InitializeClick
    \/ NextIterationClick
    \/ PreviousIterationClick

SpecA == InitA /\ [][NextA]_vars

\* ---- A run of the clustering: the user adds points, sets the cluster count
\* and initializes until there are centroids; from then on the user only
\* clicks Next Iteration, again and again.
SetupPhase == Len(centroids) = 0

RunNext ==
    \/ SetupPhase /\ AddPoint
    \/ SetupPhase /\ EditClusters
    \/ SetupPhase /\ InitializeClick
    \/ NextIterationPress

SpecRun == Init /\ [][RunNext]_vars /\ WF_vars(NextIterationPress)

\* ---- the claims

\* The last operation was a step that ran.
StepRan == lastOp = "step" /\ lastOk

\* The last operation was a revert that ran, right after a step that ran.
RevertAfterStep == lastOp = "revert" /\ lastOk /\ pre # NoPre

\* C1: a revert right after an accepted step restores the points, the
\* centroids and the iteration count of the state the step started from, and
\* the history is as long as it was.
C1_StepThenRevertRestores ==
    RevertAfterStep =>
        /\ points = pre.points
        /\ centroids = pre.centroids
        /\ currentIteration = pre.iteration
        /\ Len(iterationHistory) = Len(pre.history)

\* C1 witness: a step taken after an earlier step has been reverted.
C1_Witness ==
    /\ RevertAfterStep
    /\ pre.iteration >= 1
    /\ Len(pre.points) >= 2

\* C2: every point whose cluster is set has 0 <= cluster < len(centroids).
C2_ClusterInRange ==
    \A i \in 1..Len(points) :
        points[i].cluster # NoCluster =>
            (0 <= points[i].cluster /\ points[i].cluster < Len(centroids))

\* C3: once converged, the flag stays set across every operation other than
\* initialize and reset.
C3_ConvergedUntilInitializeOrReset ==
    [][(isConverged /\ lastOp' \notin {"initialize", "reset"}) => isConverged']_vars

\* C3 witness: the flag is still set after a revert that ran.
C3_Witness == isConverged /\ lastOp = "revert" /\ lastOk

\* C4: a step requested while there are no centroids or while converged
\* changes nothing.
C4_StepNotReadyIsNoOp ==
    [][(lastOp' = "step" /\ (Len(centroids) = 0 \/ isConverged)) =>
         UNCHANGED <<points, centroids, iterationHistory, currentIteration,
                     isConverged>>]_vars

\* C4 witness: a step was requested in a converged state with a history.
C4_Witness ==
    /\ lastOp = "step" /\ ~lastOk
    /\ isConverged /\ Len(centroids) > 0 /\ Len(iterationHistory) > 0

C6_InitializeSeedsKDistinctPoints ==
    (lastOp = "initialize" /\ lastOk /\ clusters >= 1) =>
        /\ Len(centroids) = clusters
        /\ \E f \in [1..clusters -> 1..Len(points)] :
              /\ \A i, j \in 1..clusters : f[i] = f[j] => i = j
              /\ \A i \in 1..clusters :
                    /\ centroids[i].x = points[f[i]].x * Scale
                    /\ centroids[i].y = points[f[i]].y * Scale

\* C6 witness: two centroids seeded among three points at three places.
C6_Witness ==
    /\ lastOp = "initialize" /\ lastOk
    /\ clusters = 2 /\ Len(points) = 3
    /\ \A i, j \in 1..Len(points) :
          (points[i].x = points[j].x /\ points[i].y = points[j].y) => i = j

\* The squared distance from point i to the centroid at index c (from 0) the
\* last step started from.
PreDistance(i, c) ==
    (points[i].x * Scale - pre.centroids[c + 1].x) * (points[i].x * Scale - pre.centroids[c + 1].x)
  + (points[i].y * Scale - pre.centroids[c + 1].y) * (points[i].y * Scale - pre.centroids[c + 1].y)

\* C7: after an accepted step every point's cluster is the lowest index among
\* the centroids nearest to it, the centroids being those before the step.
C7_NearestCentroidLowestIndex ==
    StepRan =>
        \A i \in 1..Len(points) :
            /\ points[i].cluster \in 0..(Len(pre.centroids) - 1)
            /\ \A c \in 0..(Len(pre.centroids) - 1) :
                  /\ PreDistance(i, points[i].cluster) <= PreDistance(i, c)
                  /\ c < points[i].cluster =>
                        PreDistance(i, points[i].cluster) < PreDistance(i, c)

\* C7 witness: a point was equidistant from two centroids at different places.
C7_Witness ==
    /\ StepRan
    /\ \E i \in 1..Len(points) : \E c \in 0..(Len(pre.centroids) - 1) :
          /\ c # points[i].cluster
          /\ pre.centroids[c + 1] # pre.centroids[points[i].cluster + 1]
          /\ PreDistance(i, c) = PreDistance(i, points[i].cluster)

\* C8: a centroid no point was assigned to by a step is where it was before
\* the step, and the step keeps the number of centroids.
C8_EmptyClusterStays ==
    StepRan =>
        /\ Len(centroids) = Len(pre.centroids)
        /\ \A c \in 1..Len(pre.centroids) :
              (\A i \in 1..Len(points) : points[i].cluster # c - 1) =>
                  centroids[c] = pre.centroids[c]

\* C8 witness: a step left a cluster away from the origin empty and moved
\* another centroid.
C8_Witness ==
    /\ StepRan
    /\ \E c \in 1..Len(centroids) :
          /\ \A i \in 1..Len(points) : points[i].cluster # c - 1
          /\ centroids[c] # [x |-> 0, y |-> 0]
    /\ \E c \in 1..Len(centroids) : centroids[c] # pre.centroids[c]

\* Every centroid is within 0.001 of where it was before the last step, on
\* both axes.
MovedLessThanEpsilon ==
    \A i \in 1..Len(centroids) :
        /\ Abs(centroids[i].x - pre.centroids[i].x) * EpsilonInverse < Scale
        /\ Abs(centroids[i].y - pre.centroids[i].y) * EpsilonInverse < Scale

\* C9: an accepted step sets converged exactly when every centroid moved by
\* less than 0.001 on both axes; either way the state holds the step's
\* labels and centroids and the iteration count is one more.
C9_ConvergedIffCentroidsStill ==
    StepRan =>
        /\ isConverged <=> MovedLessThanEpsilon
        /\ currentIteration = pre.iteration + 1
        /\ Len(points) = Len(pre.points)
        /\ \A i \in 1..Len(points) :
              /\ points[i].cluster # NoCluster
              /\ points[i].x = pre.points[i].x
              /\ points[i].y = pre.points[i].y
              /\ points[i].name = pre.points[i].name

\* C9 witness: a step that converged after a step that did not.
C9_Witness ==
    /\ StepRan
    /\ isConverged
    /\ pre.iteration >= 1

\* The seeding of Scenario A.
ScenarioSeeds == <<[x |-> 0, y |-> 0], [x |-> 10 * Scale, y |-> 10 * Scale]>>

\* The centroids Scenario A converges to: (0, 0.5) and (10, 10.5).
ScenarioMeans ==
    <<[x |-> 0, y |-> Scale \div 2], [x |-> 10 * Scale, y |-> 10 * Scale + Scale \div 2]>>

C11_PointsKeptUntilReset ==
    [][lastOp' # "reset" =>
         \A i \in 1..Len(points) : \E j \in 1..Len(points') :
             /\ points'[j].name = points[i].name
             /\ points'[j].x = points[i].x
             /\ points'[j].y = points[i].y]_vars

\* C12: after an initialize that ran, the iteration count is 0, converged is
\* false, the history is empty and no point carries a cluster label.
C12_InitializeClearsSession ==
    (lastOp = "initialize" /\ lastOk) =>
        /\ currentIteration = 0
        /\ ~isConverged
        /\ iterationHistory = <<>>
        /\ \A i \in 1..Len(points) : points[i].cluster = NoCluster

\* A further iteration from the current state would move no centroid by
\* 0.001 or more.
CentroidsAtRest == hasConverged(newCentroids(points, centroids), centroids)

\* C13: after a revert that ran, converged is false unless the restored
\* centroids are at rest, so the next step is accepted.
C13_RevertLeavesReady ==
    (lastOp = "revert" /\ lastOk) =>
        /\ isConverged => CentroidsAtRest
        /\ ~CentroidsAtRest => ~NextIterationDisabled

\* C14: a revert requested with an empty history changes nothing.
C14_RevertEmptyHistoryIsNoOp ==
    [][(lastOp' = "revert" /\ Len(iterationHistory) = 0) =>
         UNCHANGED <<points, centroids, clusterColors, iterationHistory,
                     currentIteration, isConverged>>]_vars

\* C14 witness: a revert was requested in a seeded state without a history.
C14_Witness ==
    /\ lastOp = "revert" /\ ~lastOk
    /\ Len(iterationHistory) = 0
    /\ Len(points) > 0 /\ Len(centroids) > 0

\* C15 as claimed: whenever there are centroids, there are as many as the
\* current cluster count, and as many colours as centroids.
C15_CentroidCountIsK ==
    Len(centroids) > 0 =>
        (Len(centroids) = clusters /\ Len(clusterColors) = Len(centroids))

\* C15 as amended: there are always as many colours as centroids; an
\* initialize that ran leaves as many centroids as the cluster count; adding a
\* point, a step and a revert keep the number of centroids.
C15_CentroidCountIsKAtInitialize ==
    [][/\ Len(clusterColors') = Len(centroids')
       /\ (lastOp' = "initialize" /\ lastOk') => Len(centroids') = clusters'
       /\ lastOp' \in {"addPoint", "step", "revert"} =>
             Len(centroids') = Len(centroids)]_vars

\* C15 witness: a step ran on two centroids after the cluster count was
\* edited to another value.
C15_Witness ==
    /\ StepRan
    /\ Len(centroids) = 2
    /\ clusters # Len(centroids)
    /\ Len(clusterColors) = Len(centroids)

\* C16: no two points of the current point set have the same name.
C16_NamesUnique ==
    \A i, j \in 1..Len(points) : points[i].name = points[j].name => i = j

\* C16 witness: a point was added after reverts emptied the history of a
\* converged session.
C16_Witness ==
    /\ lastOp = "addPoint" /\ lastOk
    /\ isConverged /\ Len(iterationHistory) = 0
    /\ Len(points) >= 2

\* The positions of the points labelled with the centroid index c (from 0).
Labelled(c) == {i \in 1..Len(points) : points[i].cluster = c}

\* C17: after a step that ran, the centroid at every index some point was
\* assigned to is the mean of x and of y over the points labelled with that
\* index.
C17_CentroidIsClusterMean ==
    StepRan =>
        \A c \in 0..(Len(centroids) - 1) :
            Labelled(c) # {} =>
                /\ centroids[c + 1].x * Cardinality(Labelled(c))
                      = Scale * SumOver(points, Labelled(c), "x")
                /\ centroids[c + 1].y * Cardinality(Labelled(c))
                      = Scale * SumOver(points, Labelled(c), "y")

\* C17 witness: a step gave one cluster two points at different places and
\* another cluster a point.
C17_Witness ==
    /\ StepRan
    /\ \E c \in 0..(Len(centroids) - 1) : \E i, j \in Labelled(c) :
          points[i].x # points[j].x \/ points[i].y # points[j].y
    /\ \E c, d \in 0..(Len(centroids) - 1) :
          c # d /\ Labelled(c) # {} /\ Labelled(d) # {}

\* C18: the iteration count is the length of the history; a step that ran
\* made both one more than they were.
C18_IterationCountIsHistoryLength ==
    /\ currentIteration = Len(iterationHistory)
    /\ StepRan =>
          /\ currentIteration = pre.iteration + 1
          /\ Len(iterationHistory) = Len(pre.history) + 1

\* C18 witness: a revert brought both from 2 back to 1.
C18_Witness ==
    /\ lastOp = "revert" /\ lastOk
    /\ currentIteration = 1 /\ Len(iterationHistory) = 1

\* C20: an initialize leaves the point sequence as it was: the same names and
\* coordinates at the same positions.
C20_InitializeKeepsPointOrder ==
    [][lastOp' = "initialize" =>
         /\ Len(points') = Len(points)
         /\ \A i \in 1..Len(points) :
               /\ points'[i].name = points[i].name
               /\ points'[i].x = points[i].x
               /\ points'[i].y = points[i].y]_vars

\* C19: once the centroids are seeded, repeated steps with nothing in between
\* eventually set converged.
C19_StepsEventuallyConverge == (Len(centroids) > 0) ~> isConverged

\* C19 witness: the run converged on its third step, over two centroids.
C19_Witness ==
    /\ StepRan
    /\ isConverged
    /\ pre.iteration >= 2
    /\ Len(centroids) = 2

====
